---- MODULE Spec2Model ----
(***************************************************************************)
(* Model of the generation orchestration engine of IntrepidQ               *)
(* (backend/ai_service/core/question_generator.py, class                   *)
(* QuestionGenerator): the model registry, the latency history and its     *)
(* persistence, select_model, and the attempt loop _try_models as driven   *)
(* by the three generate_* entry points.                                   *)
(*                                                                         *)
(* Latencies are exact rationals <<numerator, denominator>>; an elapsed    *)
(* time is a whole number of time units (the code rounds to 1/100 s).      *)
(***************************************************************************)
EXTENDS Integers, Sequences, FiniteSets, TLC

VARIABLES
    perf_table,       \* table model_performance: model name -> row or NoRow
    supabase_client,  \* constructor argument: TRUE when a client was given
    google_api_key,   \* constructor argument: TRUE when a key was given
    store_up,         \* TRUE while the store answers the calls made to it
    model_speeds,     \* self.model_speeds: model name -> list of latencies
    pc,               \* position of the running call
    api,              \* entry point of the running call
    requested_model,  \* argument of the running call
    selection,        \* outcome of select_model for the running call
    models,           \* list handed to _try_models
    idx,              \* 1-based position of the loop in models
    last_error,       \* position of the last failed invocation, 0 for None
    result,           \* what _try_models produced
    trace,            \* one entry per loop iteration taken so far
    base_runs,        \* sample counts when the loop was entered
    response,         \* what the entry point gave its caller
    questions_cache,  \* table questions_cache: a set of rows
    topic_questions_index, \* table topic_questions_index: a set of rows
    now,              \* datetime.now(), in whole days
    next_id,          \* next primary key the store hands out
    puts,             \* generations answered and clears made so far
    op,               \* the last cache, parser or retrieval call and its outcome
    vectorstore,      \* constructor argument: "none", "no_embeddings" or "ready"
    documents,        \* table documents: a set of rows
    caller,           \* who sends the requests of the routes: "guest" or "user"
    count_row,        \* the caller's row of guest_generations or user_profiles
    calls,            \* the concurrent calls: process -> its local state
    generated         \* day -> generations the routes answered for the caller

vars == <<perf_table, supabase_client, google_api_key, store_up, model_speeds, pc, api,
          requested_model, selection, models, idx, last_error, result, trace,
          base_runs, response, questions_cache, topic_questions_index, now,
          next_id, puts, op, vectorstore, documents, caller, count_row, calls,
          generated>>

cache_vars ==
    <<questions_cache, topic_questions_index, now, next_id, puts, op, vectorstore,
      documents, caller, count_row, calls, generated>>

----------------------------------------------------------------------------
(* Bounds of the model *)

\* persisted mean latencies drawn for the rows of model_performance
MaxAvg == 2
\* elapsed time of one invocation is in 0..MaxElapsed
MaxElapsed == 1
\* longest list handed to _try_models by a direct call
MaxLen == 2
\* most questions the parser recovers from a successful output
MaxQuestions == 1

----------------------------------------------------------------------------
(* The registry: QuestionGenerator.__init__ *)

available_models ==
    {"llama3-70b", "deepseek-r1", "llama3-8b", "gemma2-9b", "openai-oss-20b",
     "gemini-2.0-flash", "gemini-2.5-flash", "moonshot-k2"}

provider(m) ==
    IF m \in {"gemini-2.0-flash", "gemini-2.5-flash"} THEN "google" ELSE "groq"

priority_order ==
    <<"gemma2-9b", "openai-oss-20b", "llama3-70b", "moonshot-k2",
      "gemini-2.5-flash", "gemini-2.0-flash", "deepseek-r1">>

min_attempts_for_avg == 3

\* requested_model = None
None == "None"
\* a name that is no key of available_models
Unregistered == "qwen3-32b"

----------------------------------------------------------------------------
(* Rational arithmetic for sum(times) / len(times) *)

RECURSIVE GCD(_, _)
GCD(a, b) == IF b = 0 THEN a ELSE GCD(b, a % b)

Rat(n, d) ==
    LET g == GCD(n, d) IN IF n = 0 THEN <<0, 1>> ELSE <<n \div g, d \div g>>

RatAdd(x, y) == Rat(x[1] * y[2] + y[1] * x[2], x[2] * y[2])

RatLess(x, y) == x[1] * y[2] < y[1] * x[2]

\* float("inf"): greater than every latency, equal to itself
Inf == <<1, 0>>

RECURSIVE Sum(_)
Sum(times) ==
    IF times = <<>> THEN <<0, 1>> ELSE RatAdd(Head(times), Sum(Tail(times)))

Mean(times) == LET s == Sum(times) IN Rat(s[1], s[2] * Len(times))

Replicate(x, n) == [i \in 1..n |-> x]

Front(s) == SubSeq(s, 1, Len(s) - 1)

\* Python's sorted(seq, key=...): ascending, stable. key is a function on
\* the elements of seq.
RECURSIVE Insert(_, _, _)
Insert(s, x, key) ==
    IF s = <<>> THEN <<x>>
    ELSE IF RatLess(key[x], key[Head(s)]) THEN <<x>> \o s
    ELSE <<Head(s)>> \o Insert(Tail(s), x, key)

RECURSIVE sorted(_, _)
sorted(seq, key) ==
    IF seq = <<>> THEN <<>>
    ELSE Insert(sorted(Front(seq), key), seq[Len(seq)], key)

Range(s) == {s[i] : i \in DOMAIN s}

----------------------------------------------------------------------------
(* PerformanceStore: _load_model_performance, _save_model_performance,     *)
(* _log_model_speed                                                        *)

NoRow == [avg_speed |-> <<0, 1>>, num_runs |-> 0]

Row(avg, n) == [avg_speed |-> avg, num_runs |-> n]

EmptyTable == [m \in available_models |-> NoRow]

\* model_speeds after _load_model_performance has read table
LoadModelPerformance(table) ==
    [m \in available_models |->
        IF supabase_client /\ table[m].avg_speed[1] # 0 /\ table[m].num_runs # 0
        THEN Replicate(table[m].avg_speed, table[m].num_runs)
        ELSE <<>>]

\* the table after _save_model_performance(model_name) with history speeds;
\* a failed upsert is logged and swallowed
SaveModelPerformance(table, speeds, model_name) ==
    IF supabase_client /\ store_up
    THEN [table EXCEPT ![model_name] =
             Row(Mean(speeds[model_name]), Len(speeds[model_name]))]
    ELSE table

\* model_speeds after _log_model_speed(model_name, elapsed, _)
LogModelSpeed(speeds, model_name, elapsed) ==
    [speeds EXCEPT ![model_name] = Append(@, <<elapsed, 1>>)]

----------------------------------------------------------------------------
(* ModelRouter: select_model *)

\* all(len(times) >= self.min_attempts_for_avg
\*     for times in self.model_speeds.values())
AllHaveMinAttempts ==
    \A m \in available_models :
        model_speeds[m] # <<>> => Len(model_speeds[m]) >= min_attempts_for_avg

Registered(seq) == SelectSeq(seq, LAMBDA m : m \in available_models)

\* key of the fallback sort: model_speeds.get(m, [float("inf")])
FallbackKey ==
    [m \in available_models |->
        IF model_speeds[m] = <<>> THEN Inf ELSE Mean(model_speeds[m])]

Returned(list) == [exc |-> "none", models |-> list]

Raised(e) == [exc |-> e, models |-> <<>>]

\* select_model without the forced first place: the requested model is sorted
\* with the others
select_model_unforced(requested) ==
    IF requested # None /\ requested \in available_models /\ AllHaveMinAttempts
    THEN Returned(sorted(<<requested>>
                    \o SelectSeq(priority_order, LAMBDA m : m # requested),
                  FallbackKey))
    ELSE Returned(Registered(priority_order))

select_model(requested) ==
    IF requested # None /\ requested \in available_models
    THEN LET fallback == SelectSeq(priority_order, LAMBDA m : m # requested)
         IN  IF AllHaveMinAttempts
             THEN Returned(<<requested>> \o sorted(Registered(fallback), FallbackKey))
             ELSE Returned(<<requested>> \o fallback)
    ELSE IF AllHaveMinAttempts
         THEN \* key is self.model_speeds[m]: a model without history is a KeyError
              IF \E m \in Range(Registered(priority_order)) : model_speeds[m] = <<>>
              THEN Raised("KeyError")
              ELSE Returned(sorted(Registered(priority_order), FallbackKey))
         ELSE Returned(Registered(priority_order))

----------------------------------------------------------------------------
(* GenerationCache: _get_cache_key, _cache_questions, _cleanup_topic_cache, *)
(* _get_cached_questions_as_examples, clear_cache.                          *)
(* Time is counted in whole days. A table is the set of its rows.           *)

\* _cleanup_topic_cache(subject, topic, max_entries=50)
max_entries == 50
\* timedelta(days=7)
ttl_days == 7

\* most questions in one generation
MaxBatch == 2
\* most generations and clears in one behaviour
MaxPuts == 2
\* most days that pass in one behaviour
MaxTicks == 1

Subjects == {"GS1", "GS2"}

Topics == {"Polity", "Economy"}

\* the questions of one generation, each standing for its text
Batch(n) == [i \in 1..n |-> IF i % 2 = 1 THEN "q1" ELSE "q2"]

Batches == {Batch(n) : n \in 0..MaxBatch}

\* the topics questions are generated for
GenerationTopics == {<<"GS1", "Polity">>, <<"GS2", "Polity">>}

\* str(bool) of Python
PyBool(b) == IF b THEN "True" ELSE "False"

\* key_data = f"{subject}_{topic}_{num}_{use_ca}_{months}"
key_data(subject, topic, num, use_ca, months) ==
    subject \o "_" \o topic \o "_" \o ToString(num) \o "_" \o PyBool(use_ca)
        \o "_" \o ToString(months)

\* hashlib.md5(data).hexdigest(): the digest is a function of the bytes
\* hashed, and two different byte strings are taken to have two digests
md5(data) == <<"md5", data>>

GetCacheKey(subject, topic, num, use_ca, months) ==
    md5(key_data(subject, topic, num, use_ca, months))

\* the column default of created_at: the time of the insert
created_at_default == now

\* cache_data of _cache_questions
CacheRow(cache_key, qs, subject, topic) ==
    [cache_key |-> cache_key, subject |-> subject, topic |-> topic,
     questions |-> qs, expires_at |-> now + ttl_days]

\* table('questions_cache').upsert(cache_data): one row per cache_key
Upsert(table, row) ==
    {r \in table : r.cache_key # row.cache_key} \cup {row}

\* topic_entries of _cache_questions, as the store keeps them
TopicEntries(qs, subject, topic) ==
    {[id |-> next_id + i - 1, subject |-> subject, topic |-> topic,
      question_text |-> qs[i], created_at |-> created_at_default,
      expires_at |-> now + ttl_days] : i \in DOMAIN qs}

OfTopic(table, subject, topic) ==
    {r \in table : r.subject = subject /\ r.topic = topic}

Oldest(rows) == {r \in rows : \A w \in rows : r.created_at <= w.created_at}

Newest(rows) == {r \in rows : \A w \in rows : r.created_at >= w.created_at}

\* .order('created_at').limit(n): the sets of rows a query can answer with,
\* rows of one created_at coming in any order
RECURSIVE FirstByCreatedAt(_, _)
FirstByCreatedAt(rows, n) ==
    IF n = 0 \/ rows = {} THEN {{}}
    ELSE UNION {{got \cup {r} : got \in FirstByCreatedAt(rows \ {r}, n - 1)} :
                r \in Oldest(rows)}

\* .order('created_at', desc=True).limit(n)
RECURSIVE LastByCreatedAt(_, _)
LastByCreatedAt(rows, n) ==
    IF n = 0 \/ rows = {} THEN {{}}
    ELSE UNION {{got \cup {r} : got \in LastByCreatedAt(rows \ {r}, n - 1)} :
                r \in Newest(rows)}

\* store calls of _cache_questions at which the store can fail
PutFailures == {"none", "upsert", "insert", "count", "select", "delete"}

\* _cleanup_topic_cache with the newest rows deleted instead of the oldest
CleanupTopicCache_Newest(table, subject, topic, fail) ==
    LET rows == OfTopic(table, subject, topic)
        excess == Cardinality(rows) - max_entries
    IN  IF fail = "count" THEN {{}}
        ELSE IF excess <= 0 THEN (IF fail = "none" THEN {{}} ELSE {})
        ELSE IF fail = "select" THEN {{}}
        ELSE IF fail = "delete"
        THEN UNION {LastByCreatedAt(rows, d) : d \in 0..(excess - 1)}
        ELSE LastByCreatedAt(rows, excess)

\* _cleanup_topic_cache: the sets of rows it can delete from table. The rows
\* are deleted one by one, so a failing delete leaves the earlier ones deleted
CleanupTopicCache(table, subject, topic, fail) ==
    LET rows == OfTopic(table, subject, topic)
        excess == Cardinality(rows) - max_entries
    IN  IF fail = "count" THEN {{}}
        ELSE IF excess <= 0 THEN (IF fail = "none" THEN {{}} ELSE {})
        ELSE IF fail = "select" THEN {{}}
        ELSE IF fail = "delete"
        THEN UNION {FirstByCreatedAt(rows, d) : d \in 0..(excess - 1)}
        ELSE FirstByCreatedAt(rows, excess)

\* _cache_questions without the insert into topic_questions_index
CacheQuestions_IndexUnwritten(cache_key, qs, subject, topic, fail) ==
    /\ questions_cache' =
           Upsert(questions_cache, CacheRow(cache_key, qs, subject, topic))
    /\ UNCHANGED <<topic_questions_index, next_id>>

\* _cache_questions with a question the topic already holds not inserted again
CacheQuestions_KnownSkipped(cache_key, qs, subject, topic, fail) ==
    IF ~supabase_client
    THEN /\ fail = "none"
         /\ UNCHANGED <<questions_cache, topic_questions_index, next_id>>
    ELSE IF fail = "upsert"
    THEN UNCHANGED <<questions_cache, topic_questions_index, next_id>>
    ELSE /\ questions_cache' =
                Upsert(questions_cache, CacheRow(cache_key, qs, subject, topic))
         /\ IF qs = <<>>
            THEN /\ fail = "none"
                 /\ UNCHANGED <<topic_questions_index, next_id>>
            ELSE IF fail = "insert"
            THEN UNCHANGED <<topic_questions_index, next_id>>
            ELSE LET known == {r.question_text :
                                  r \in OfTopic(topic_questions_index, subject, topic)}
                     inserted ==
                         topic_questions_index
                             \cup {r \in TopicEntries(qs, subject, topic) :
                                       r.question_text \notin known}
                 IN  /\ next_id' = next_id + Len(qs)
                     /\ \E deleted \in
                            CleanupTopicCache(inserted, subject, topic, fail) :
                            topic_questions_index' = inserted \ deleted

\* _cache_questions: every exception of the store is caught and logged
CacheQuestions(cache_key, qs, subject, topic, fail) ==
    IF ~supabase_client
    THEN /\ fail = "none"
         /\ UNCHANGED <<questions_cache, topic_questions_index, next_id>>
    ELSE IF fail = "upsert"
    THEN UNCHANGED <<questions_cache, topic_questions_index, next_id>>
    ELSE /\ questions_cache' =
                Upsert(questions_cache, CacheRow(cache_key, qs, subject, topic))
         /\ IF qs = <<>>
            THEN /\ fail = "none"
                 /\ UNCHANGED <<topic_questions_index, next_id>>
            ELSE IF fail = "insert"
            THEN UNCHANGED <<topic_questions_index, next_id>>
            ELSE LET inserted ==
                         topic_questions_index \cup TopicEntries(qs, subject, topic)
                 IN  /\ next_id' = next_id + Len(qs)
                     /\ \E deleted \in
                            CleanupTopicCache(inserted, subject, topic, fail) :
                            topic_questions_index' = inserted \ deleted

\* the branch clear_cache takes for its arguments, as a row filter
ClearFilter(subject, topic, r) ==
    IF topic # None /\ subject # None
    THEN r.subject = subject /\ r.topic = topic
    ELSE IF subject # None THEN r.subject = subject
    ELSE TRUE

ClearFailures == {"none", "questions_cache", "topic_questions_index"}

\* clear_cache: questions_cache is deleted from first, then the index
ClearCache(subject, topic, fail) ==
    /\ questions_cache' =
           IF fail = "questions_cache" THEN questions_cache
           ELSE {r \in questions_cache : ~ClearFilter(subject, topic, r)}
    /\ topic_questions_index' =
           IF fail # "none" THEN topic_questions_index
           ELSE {r \in topic_questions_index : ~ClearFilter(subject, topic, r)}

\* random.sample(rows, n): the rows drawn, in the order drawn
Samples(rows, n) ==
    {s \in [1..n -> rows] : \A i, j \in 1..n : i # j => s[i] # s[j]}

Min(a, b) == IF a < b THEN a ELSE b

\* f"{i}. {question}"
Numbered(i, question) == ToString(i) \o ". " \o question

\* [item for item in response.data if item.get('question_text')]
WithText(rows) == {r \in rows : r.question_text # ""}

\* _get_cached_questions_as_examples without the expires_at filter
GetCachedQuestionsAsExamples_Unfiltered(subject, topic, max_examples, fail) ==
    IF ~supabase_client \/ fail THEN {<<>>}
    ELSE LET live == OfTopic(topic_questions_index, subject, topic)
         IN  UNION {Samples(WithText(got),
                            Min(Cardinality(WithText(got)), max_examples)) :
                    got \in LastByCreatedAt(live, max_examples * 2)}

\* _get_cached_questions_as_examples without the topic filter
GetCachedQuestionsAsExamples_AnyTopic(subject, topic, max_examples, fail) ==
    IF ~supabase_client \/ fail THEN {<<>>}
    ELSE LET live == {r \in topic_questions_index :
                        r.subject = subject /\ r.expires_at > now}
         IN  UNION {Samples(WithText(got),
                            Min(Cardinality(WithText(got)), max_examples)) :
                    got \in LastByCreatedAt(live, max_examples * 2)}

\* _get_cached_questions_as_examples: the lists of rows it can draw, each
\* row standing for its question_text
GetCachedQuestionsAsExamples(subject, topic, max_examples, fail) ==
    IF ~supabase_client \/ fail THEN {<<>>}
    ELSE LET live == {r \in OfTopic(topic_questions_index, subject, topic) :
                        r.expires_at > now}
         IN  UNION {Samples(WithText(got),
                            Min(Cardinality(WithText(got)), max_examples)) :
                    got \in LastByCreatedAt(live, max_examples * 2)}

\* the examples list built from the rows drawn
Examples(drawn) == [i \in DOMAIN drawn |-> Numbered(i, drawn[i].question_text)]

NoOp == [name |-> "none"]

\* the cache of a deployment that has not generated anything yet
EmptyCache ==
    /\ questions_cache = {}
    /\ topic_questions_index = {}
    /\ next_id = 1

\* the first day of a behaviour
StartDay == max_entries

CacheIdle ==
    /\ now = StartDay
    /\ puts = 0
    /\ op = NoOp

\* a deployment with its vector store ready and no document ingested
NoDocuments ==
    /\ vectorstore = "ready"
    /\ documents = {}

\* most calls running at the same time
MaxCalls == 2

Days == StartDay..(StartDay + MaxTicks)

\* a row of guest_generations or user_profiles, or the absence of one
CountRow(count, date) ==
    [exists |-> TRUE, generation_count |-> count, last_generation_date |-> date]

NoRecord == [exists |-> FALSE, generation_count |-> 0, last_generation_date |-> 0]

IdleCall == [pc |-> "idle", today |-> 0, read |-> NoRecord]

\* no request of a route is running and none was answered
NoCalls ==
    /\ caller = "guest"
    /\ count_row = NoRecord
    /\ calls = [p \in 1..MaxCalls |-> IdleCall]
    /\ generated = [d \in Days |-> 0]

----------------------------------------------------------------------------
(* State after construction: QuestionGenerator.__init__ *)

NoResult ==
    [status |-> "none", model |-> "none", duration |-> 0, avg_speed |-> <<0, 1>>,
     runs |-> 0, output |-> [kind |-> "none", last_error |-> 0]]

NoResponse ==
    [kind |-> "none", status |-> "none", model |-> "none", runs |-> 0,
     questions |-> 0]

Runs(speeds) == [m \in available_models |-> Len(speeds[m])]

\* every registered model has min_attempts_for_avg runs, at two mean speeds
SeededTable ==
    [m \in available_models |->
        Row(IF m \in {"gemma2-9b", "llama3-70b", "gemini-2.5-flash"}
            THEN <<MaxAvg, 1>> ELSE <<1, 1>>, min_attempts_for_avg)]

InitTables == {EmptyTable, SeededTable}

Constructed(tables) ==
    /\ perf_table \in tables
    /\ model_speeds = LoadModelPerformance(perf_table)
    /\ pc = "idle"
    /\ api = "none"
    /\ requested_model = None
    /\ selection = Returned(<<>>)
    /\ models = <<>>
    /\ idx = 1
    /\ last_error = 0
    /\ result = NoResult
    /\ trace = <<>>
    /\ base_runs = Runs(model_speeds)
    /\ response = NoResponse

Init ==
    /\ supabase_client \in BOOLEAN
    /\ google_api_key \in BOOLEAN
    /\ store_up \in BOOLEAN
    /\ Constructed(InitTables)
    /\ EmptyCache
    /\ CacheIdle
    /\ NoDocuments
    /\ NoCalls

----------------------------------------------------------------------------
(* The attempt loop: _get_llm_client, _try_models *)

\* what _get_llm_client(model_name) can give: None, or a constructor call
HasClient(model_name) ==
    /\ model_name \in available_models
    /\ provider(model_name) = "google" => google_api_key

Entry(model_name, outcome) == [model |-> model_name, outcome |-> outcome]

EnterTryModels(list) ==
    /\ models' = list
    /\ idx' = 1
    /\ last_error' = 0
    /\ result' = NoResult
    /\ trace' = <<>>
    /\ base_runs' = Runs(model_speeds)

InLoop == pc = "try" /\ idx <= Len(models)

\* llm is None: continue
SkipUnavailable ==
    /\ InLoop
    /\ ~HasClient(models[idx])
    /\ trace' = Append(trace, Entry(models[idx], "unavailable"))
    /\ idx' = idx + 1
    /\ UNCHANGED <<perf_table, supabase_client, google_api_key, store_up,
                   model_speeds, pc,
                   api, requested_model, selection, models, last_error, result,
                   base_runs, response>>
    /\ UNCHANGED cache_vars

\* the provider constructor raises: the call is outside the try block
ClientConstructorRaises ==
    /\ InLoop
    /\ HasClient(models[idx])
    /\ trace' = Append(trace, Entry(models[idx], "constructor_raised"))
    /\ result' = [NoResult EXCEPT !.status = "raised"]
    /\ pc' = "returned"
    /\ UNCHANGED <<perf_table, supabase_client, google_api_key, store_up,
                   model_speeds, api,
                   requested_model, selection, models, idx, last_error, base_runs,
                   response>>
    /\ UNCHANGED cache_vars

\* InvokeSucceeds without the return: the loop goes on to the next candidate
InvokeSucceeds_NoReturn(elapsed) ==
    /\ InLoop
    /\ HasClient(models[idx])
    /\ LET speeds == LogModelSpeed(model_speeds, models[idx], elapsed)
       IN  /\ model_speeds' = speeds
           /\ perf_table' = SaveModelPerformance(perf_table, speeds, models[idx])
    /\ trace' = Append(trace, Entry(models[idx], "success"))
    /\ idx' = idx + 1
    /\ UNCHANGED <<supabase_client, google_api_key, store_up, pc, api,
                   requested_model, selection, models, last_error, result,
                   base_runs, response>>
    /\ UNCHANGED cache_vars

\* _use_llm returns: log the speed and return the success dictionary
InvokeSucceeds(elapsed) ==
    /\ InLoop
    /\ HasClient(models[idx])
    /\ LET speeds == LogModelSpeed(model_speeds, models[idx], elapsed)
       IN  /\ model_speeds' = speeds
           /\ perf_table' = SaveModelPerformance(perf_table, speeds, models[idx])
           /\ result' = [status |-> "success", model |-> models[idx],
                         duration |-> elapsed,
                         avg_speed |-> Mean(speeds[models[idx]]),
                         runs |-> Len(speeds[models[idx]]),
                         output |-> [kind |-> "llm", last_error |-> 0]]
    /\ trace' = Append(trace, Entry(models[idx], "success"))
    /\ pc' = "returned"
    /\ UNCHANGED <<supabase_client, google_api_key, store_up, api, requested_model,
                   selection, models, idx, last_error, base_runs, response>>
    /\ UNCHANGED cache_vars

\* InvokeFails without _log_model_speed in the except branch
InvokeFails_Unlogged(elapsed) ==
    /\ InLoop
    /\ HasClient(models[idx])
    /\ trace' = Append(trace, Entry(models[idx], "failed"))
    /\ last_error' = idx
    /\ idx' = idx + 1
    /\ UNCHANGED <<perf_table, supabase_client, google_api_key, store_up,
                   model_speeds, pc, api, requested_model, selection, models,
                   result, base_runs, response>>
    /\ UNCHANGED cache_vars

\* InvokeFails with the failed candidate tried again
InvokeFails_Retried(elapsed) ==
    /\ InLoop
    /\ HasClient(models[idx])
    /\ LET speeds == LogModelSpeed(model_speeds, models[idx], elapsed)
       IN  /\ model_speeds' = speeds
           /\ perf_table' = SaveModelPerformance(perf_table, speeds, models[idx])
    /\ trace' = Append(trace, Entry(models[idx], "failed"))
    /\ last_error' = idx
    /\ UNCHANGED <<supabase_client, google_api_key, store_up, pc, api, requested_model,
                   selection, models, idx, result, base_runs, response>>
    /\ UNCHANGED cache_vars

\* _use_llm raises: log the speed, remember the error, continue
InvokeFails(elapsed) ==
    /\ InLoop
    /\ HasClient(models[idx])
    /\ LET speeds == LogModelSpeed(model_speeds, models[idx], elapsed)
       IN  /\ model_speeds' = speeds
           /\ perf_table' = SaveModelPerformance(perf_table, speeds, models[idx])
    /\ trace' = Append(trace, Entry(models[idx], "failed"))
    /\ last_error' = idx
    /\ idx' = idx + 1
    /\ UNCHANGED <<supabase_client, google_api_key, store_up, pc, api, requested_model,
                   selection, models, result, base_runs, response>>
    /\ UNCHANGED cache_vars

\* the list is exhausted: the all_failed dictionary
AllModelsFailed ==
    /\ pc = "try"
    /\ idx > Len(models)
    /\ result' = [status |-> "all_failed", model |-> "failed", duration |-> 0,
                  avg_speed |-> <<0, 1>>, runs |-> 0,
                  output |-> [kind |-> "all_failed_message",
                              last_error |-> last_error]]
    /\ pc' = "returned"
    /\ UNCHANGED <<perf_table, supabase_client, google_api_key, store_up,
                   model_speeds, api,
                   requested_model, selection, models, idx, last_error, trace,
                   base_runs, response>>
    /\ UNCHANGED cache_vars

----------------------------------------------------------------------------
(* GenerationService: the entry points and what they return *)

RequestedModels == {None, "gemma2-9b", "llama3-8b", Unregistered}

\* names of the lists handed to _try_models by a direct call
DirectNames == {"gemma2-9b", "gemini-2.5-flash", Unregistered}

DirectLists == UNION {[1..n -> DirectNames] : n \in 0..MaxLen}

ErrorResponse ==
    [kind |-> "response", status |-> "error", model |-> "error", runs |-> 0,
     questions |-> 1]

Escaped == [NoResponse EXCEPT !.kind = "exception"]

Unchanged_store ==
    UNCHANGED <<perf_table, supabase_client, google_api_key, store_up, model_speeds>>

\* generate_topic_questions: select_model is called outside any try block,
\* then _generate_static_questions or _generate_current_affairs_questions
GenerateTopicQuestions(requested) ==
    /\ pc = "idle"
    /\ api' = "generate_topic_questions"
    /\ requested_model' = requested
    /\ selection' = select_model(requested)
    /\ IF selection'.exc # "none"
       THEN /\ pc' = "done"
            /\ response' = Escaped
            /\ UNCHANGED <<models, idx, last_error, result, trace, base_runs>>
       ELSE /\ pc' = "try"
            /\ EnterTryModels(selection'.models)
            /\ UNCHANGED response
    /\ Unchanged_store
    /\ UNCHANGED cache_vars

\* the start of generate_whole_paper and generate_questions_from_keywords:
\* select_model is inside the function's try block
GenerateInsideTry(name, requested, early) ==
    /\ pc = "idle"
    /\ api' = name
    /\ requested_model' = requested
    /\ selection' = select_model(requested)
    /\ IF selection'.exc # "none"
       THEN /\ pc' = "done"
            /\ response' = ErrorResponse
            /\ UNCHANGED <<models, idx, last_error, result, trace, base_runs>>
       ELSE IF early
       THEN /\ pc' = "done"
            /\ response' = [kind |-> "response", status |-> "no_topics",
                            model |-> "none", runs |-> 0, questions |-> 1]
            /\ UNCHANGED <<models, idx, last_error, result, trace, base_runs>>
       ELSE /\ pc' = "try"
            /\ EnterTryModels(selection'.models)
            /\ UNCHANGED response
    /\ Unchanged_store
    /\ UNCHANGED cache_vars

\* topics_by_subject is empty for every subject without a Supabase client
GenerateWholePaper(requested, has_topics) ==
    /\ has_topics => supabase_client
    /\ GenerateInsideTry("generate_whole_paper", requested, ~has_topics)

GenerateQuestionsFromKeywords(requested) ==
    GenerateInsideTry("generate_questions_from_keywords", requested, FALSE)

\* _try_models called with a list of the caller's own
CallTryModels(list) ==
    /\ pc = "idle"
    /\ api' = "_try_models"
    /\ pc' = "try"
    /\ EnterTryModels(list)
    /\ UNCHANGED <<requested_model, selection, response>>
    /\ Unchanged_store
    /\ UNCHANGED cache_vars

Unchanged_call ==
    UNCHANGED <<api, requested_model, selection, models, idx, last_error, result,
                trace, base_runs>>

\* the questions a generate function answers with
Parsed(n) == Batch(n)

\* "paper_<subject>_<topic>_<time>" caching of generate_whole_paper needs
\* at least this many questions
min_paper_questions == 5

\* Answer with a failure of the store reaching the except of the function
Answer_StoreFailureEscapes(res, cacheable, cache_key, qs, subject, topic, fail) ==
    /\ IF cacheable /\ qs # <<>> /\ res.status = "success"
       THEN CacheQuestions(cache_key, qs, subject, topic, fail)
       ELSE /\ fail = "none"
            /\ UNCHANGED <<questions_cache, topic_questions_index, next_id>>
    /\ response' = IF fail # "none" THEN ErrorResponse
                   ELSE [kind |-> "response", status |-> res.status,
                         model |-> res.model, runs |-> res.runs,
                         questions |-> Len(qs)]
    /\ puts' = puts + 1
    /\ op' = [name |-> "put", subject |-> subject, topic |-> topic, qs |-> qs,
              status |-> res.status, fail |-> fail, first_id |-> next_id]
    /\ UNCHANGED now

\* Answer with the questions cached whatever the status of the attempt
Answer_AnyStatus(res, cacheable, cache_key, qs, subject, topic, fail) ==
    /\ IF cacheable /\ qs # <<>>
       THEN CacheQuestions(cache_key, qs, subject, topic, fail)
       ELSE /\ fail = "none"
            /\ UNCHANGED <<questions_cache, topic_questions_index, next_id>>
    /\ response' = [kind |-> "response", status |-> res.status,
                    model |-> res.model, runs |-> res.runs,
                    questions |-> Len(qs)]
    /\ puts' = puts + 1
    /\ op' = [name |-> "put", subject |-> subject, topic |-> topic, qs |-> qs,
              status |-> res.status, fail |-> fail, first_id |-> next_id]
    /\ UNCHANGED now

\* the end of a generate function once _try_models returned res and the
\* parser gave qs: cache the questions of a successful attempt, answer with
\* qs and the status of the attempt
Answer(res, cacheable, cache_key, qs, subject, topic, fail) ==
    /\ IF cacheable /\ qs # <<>> /\ res.status = "success"
       THEN CacheQuestions(cache_key, qs, subject, topic, fail)
       ELSE /\ fail = "none"
            /\ UNCHANGED <<questions_cache, topic_questions_index, next_id>>
    /\ response' = [kind |-> "response", status |-> res.status,
                    model |-> res.model, runs |-> res.runs,
                    questions |-> Len(qs)]
    /\ puts' = puts + 1
    /\ op' = [name |-> "put", subject |-> subject, topic |-> topic, qs |-> qs,
              status |-> res.status, fail |-> fail, first_id |-> next_id]
    /\ UNCHANGED now

\* _try_models returned to a generate function: parse the output, answer with
\* the status of the attempt. The text of a model is the environment's, so
\* the number of questions parsed from it is any number up to MaxQuestions;
\* the all_failed message is one paragraph of more than 10 characters.
\* A store that is up fails no call; a paper of fewer than
\* min_paper_questions questions is not cached.
RespondWithQuestions(n, fail) ==
    /\ pc = "returned"
    /\ api # "_try_models"
    /\ result.status \in {"success", "all_failed"}
    /\ result.status = "all_failed" => n = 1
    /\ store_up => fail = "none"
    /\ api = "generate_whole_paper" => n < min_paper_questions
    /\ Answer(result, api # "generate_whole_paper",
              GetCacheKey("GS1", "Polity", n, FALSE, 0), Parsed(n),
              "GS1", "Polity", fail)
    /\ pc' = "done"
    /\ UNCHANGED <<vectorstore, documents, caller, count_row, calls, generated>>
    /\ Unchanged_call
    /\ Unchanged_store

\* _try_models raised inside the try block of a generate function
RespondAfterException ==
    /\ pc = "returned"
    /\ api # "_try_models"
    /\ result.status = "raised"
    /\ response' = ErrorResponse
    /\ pc' = "done"
    /\ Unchanged_call
    /\ Unchanged_store
    /\ UNCHANGED cache_vars

\* the direct caller of _try_models gets the dictionary, or the exception
ReturnToCaller ==
    /\ pc = "returned"
    /\ api = "_try_models"
    /\ response' = IF result.status = "raised" THEN Escaped
                   ELSE [kind |-> "response", status |-> result.status,
                         model |-> result.model, runs |-> result.runs,
                         questions |-> 0]
    /\ pc' = "done"
    /\ Unchanged_call
    /\ Unchanged_store
    /\ UNCHANGED cache_vars

Next ==
    \/ \E r \in RequestedModels : GenerateTopicQuestions(r)
    \/ \E r \in RequestedModels, t \in BOOLEAN : GenerateWholePaper(r, t)
    \/ \E r \in RequestedModels : GenerateQuestionsFromKeywords(r)
    \/ \E list \in DirectLists : CallTryModels(list)
    \/ SkipUnavailable
    \/ ClientConstructorRaises
    \/ \E e \in 0..MaxElapsed : InvokeSucceeds(e)
    \/ \E e \in 0..MaxElapsed : InvokeFails(e)
    \/ AllModelsFailed
    \/ \E n \in 0..MaxQuestions, f \in PutFailures : RespondWithQuestions(n, f)
    \/ RespondAfterException
    \/ ReturnToCaller

Spec == Init /\ [][Next]_vars

----------------------------------------------------------------------------
(* select_model over the histories a restart can load *)

\* a row is absent, below the threshold, or at the threshold with any mean
RowOptions ==
    {NoRow, Row(<<1, 1>>, min_attempts_for_avg - 1)}
        \cup {Row(<<a, 1>>, min_attempts_for_avg) : a \in 1..MaxAvg}

SelectTables == [available_models -> RowOptions]

InitSelect ==
    /\ supabase_client = TRUE
    /\ google_api_key = TRUE
    /\ store_up = TRUE
    /\ Constructed(SelectTables)
    /\ EmptyCache
    /\ CacheIdle
    /\ NoDocuments
    /\ NoCalls

SelectModel(requested) ==
    /\ pc = "idle"
    /\ pc' = "selected"
    /\ requested_model' = requested
    /\ selection' = select_model(requested)
    /\ UNCHANGED <<api, models, idx, last_error, result, trace, base_runs,
                   response>>
    /\ Unchanged_store
    /\ UNCHANGED cache_vars

NextSelect == \E r \in RequestedModels : SelectModel(r)

SpecSelect == InitSelect /\ [][NextSelect]_vars

----------------------------------------------------------------------------
(* The cache under generations, reads, clears and the passing of days *)

\* k rows of one topic stored by earlier generations, two a day, the row of
\* the highest id being the oldest
StoredIndex(k, subject, topic) ==
    {[id |-> j, subject |-> subject, topic |-> topic,
      question_text |-> IF j % 2 = 0 THEN "q1" ELSE "q2",
      created_at |-> StartDay - 2 * ((j - 1) \div 2),
      expires_at |-> StartDay - 2 * ((j - 1) \div 2) + ttl_days] : j \in 1..k}

\* the questions_cache row of the last of these generations
StoredRow(subject, topic) ==
    [cache_key |-> GetCacheKey(subject, topic, 2, FALSE, 0), subject |-> subject,
     topic |-> topic, questions |-> <<"q2", "q1">>,
     expires_at |-> StartDay + ttl_days]

\* one earlier generation for each of the other topics: one expiring on the
\* first day, one on the day after, one later. The second is the question of
\* a model that answered [""]
OtherIndex ==
    {[id |-> max_entries + 1 + i, subject |-> s, topic |-> t,
      question_text |-> IF i = 2 THEN "" ELSE "q1", created_at |-> StartDay - ttl_days - 1 + i,
      expires_at |-> StartDay - 1 + i] :
        <<i, s, t>> \in {<<1, "GS1", "Economy">>, <<2, "GS2", "Polity">>,
                         <<3, "GS2", "Economy">>}}

OtherRows ==
    {[cache_key |-> GetCacheKey(r.subject, r.topic, 1, FALSE, 0),
      subject |-> r.subject, topic |-> r.topic,
      questions |-> <<r.question_text>>, expires_at |-> r.expires_at] :
        r \in OtherIndex}

InitCache ==
    /\ supabase_client = TRUE
    /\ google_api_key = TRUE
    /\ store_up = FALSE
    /\ Constructed({EmptyTable})
    /\ \E stored \in BOOLEAN :
          /\ topic_questions_index =
                 IF stored
                 THEN StoredIndex(max_entries - 1, "GS1", "Polity") \cup OtherIndex
                 ELSE {}
          /\ questions_cache =
                 IF stored THEN {StoredRow("GS1", "Polity")} \cup OtherRows ELSE {}
    /\ next_id = max_entries + 5
    /\ CacheIdle
    /\ NoDocuments
    /\ NoCalls

\* what _try_models gives a generate function
AttemptResult(status) ==
    [NoResult EXCEPT !.status = status,
                     !.model = IF status = "success" THEN "gemma2-9b" ELSE "failed",
                     !.runs = IF status = "success" THEN 1 ELSE 0]

Unchanged_request ==
    UNCHANGED <<perf_table, supabase_client, google_api_key, store_up,
                model_speeds, pc, api, requested_model, selection, models, idx,
                last_error, trace, base_runs, vectorstore, documents, caller,
                count_row, calls, generated>>

\* _generate_static_questions from the return of _try_models on: qs is what
\* the parser gave for the num questions asked for
GenerateStaticQuestions(subject, topic, status, qs, fail) ==
    /\ puts < MaxPuts
    /\ status = "all_failed" => Len(qs) = 1
    /\ result' = AttemptResult(status)
    /\ Answer(result', TRUE, GetCacheKey(subject, topic, Len(qs), FALSE, 0), qs,
              subject, topic, fail)
    /\ Unchanged_request

\* clear_cache(subject, topic)
ClearCacheCall(subject, topic, fail) ==
    /\ puts < MaxPuts
    /\ puts' = puts + 1
    /\ IF supabase_client
       THEN ClearCache(subject, topic, fail)
       ELSE /\ fail = "none"
            /\ UNCHANGED <<questions_cache, topic_questions_index>>
    /\ op' = [name |-> "clear", subject |-> subject, topic |-> topic,
              fail |-> fail]
    /\ UNCHANGED <<now, next_id, result, response>>
    /\ Unchanged_request

\* _get_cached_questions_as_examples(subject, topic, max_examples)
ReadExamples(subject, topic, max_examples, fail) ==
    /\ \E drawn \in GetCachedQuestionsAsExamples(subject, topic, max_examples, fail) :
          op' = [name |-> "examples", subject |-> subject, topic |-> topic,
                 max_examples |-> max_examples, at |-> now, fail |-> fail,
                 drawn |-> drawn, examples |-> Examples(drawn)]
    /\ UNCHANGED <<questions_cache, topic_questions_index, now, next_id, puts,
                   result, response>>
    /\ Unchanged_request

\* a day passes
Tick ==
    /\ now < StartDay + MaxTicks
    /\ now' = now + 1
    /\ UNCHANGED <<questions_cache, topic_questions_index, next_id, puts, op,
                   result, response>>
    /\ Unchanged_request

\* max_examples of the callers of _get_cached_questions_as_examples
MaxExamples == {1, 2}

NextCache ==
    \/ \E g \in GenerationTopics, st \in {"success", "all_failed"},
          qs \in Batches, f \in PutFailures :
          GenerateStaticQuestions(g[1], g[2], st, qs, f)
    \/ \E s \in Subjects \cup {None}, t \in Topics \cup {None}, f \in ClearFailures :
          ClearCacheCall(s, t, f)
    \/ Tick

SpecCache == InitCache /\ [][NextCache]_vars

\* the same with the examples of the index read between the writes
NextExamples ==
    \/ NextCache
    \/ \E s \in Subjects, t \in Topics, m \in MaxExamples, f \in BOOLEAN :
          ReadExamples(s, t, m, f)

SpecExamples == InitCache /\ [][NextExamples]_vars

----------------------------------------------------------------------------
(* _get_cache_key over pairs of requests *)

\* subject and first keyword as generate_questions_from_keywords receives
\* them from a request, and a topic of the syllabus
KeySubjects == {"GS1", "GS1_climate"}

KeyTopics == {"change", "climate_change", "Polity"}

\* (subject, topic, num, use_ca, months) of a request
KeyTuples ==
    [subject : KeySubjects, topic : KeyTopics, num : 1..MaxBatch,
     use_ca : BOOLEAN, months : {0, 6}]

KeyOf(t) == GetCacheKey(t.subject, t.topic, t.num, t.use_ca, t.months)

InitKey ==
    /\ supabase_client = TRUE
    /\ google_api_key = TRUE
    /\ store_up = TRUE
    /\ Constructed({EmptyTable})
    /\ EmptyCache
    /\ NoDocuments
    /\ NoCalls
    /\ now = StartDay
    /\ puts = 0
    /\ \E a \in KeyTuples, b \in KeyTuples : op = [name |-> "requests", a |-> a, b |-> b]

\* the keys of two requests
ComputeCacheKeys ==
    /\ op.name = "requests"
    /\ op' = [name |-> "keys", a |-> op.a, b |-> op.b,
              key_a |-> KeyOf(op.a), key_b |-> KeyOf(op.b)]
    /\ UNCHANGED <<questions_cache, topic_questions_index, now, next_id, puts,
                   result, response>>
    /\ Unchanged_request

SpecKey == InitKey /\ [][ComputeCacheKeys]_vars

----------------------------------------------------------------------------
(* DocumentRetriever: _get_relevant_documents_with_fallback,                *)
(* _get_relevant_documents_without_filter, _get_documents_current_method    *)

\* largest k of a retrieval
MaxK == 2

DocContents == {"d1", "d2", "d3"}

DocumentRows == [content : DocContents, topic : Topics]

\* [item["content"] for item in rows]
Contents(rows) == [i \in DOMAIN rows |-> rows[i].content]

\* the first k rows of a query, in the order the store gives them
TopK(rows, k) == Samples(rows, Min(Cardinality(rows), k))

\* _get_documents_current_method: the lists it can return
GetDocumentsCurrentMethod(topic, k, scan_fails) ==
    IF ~supabase_client \/ scan_fails THEN {<<>>}
    ELSE {Contents(rows) : rows \in TopK({d \in documents : d.topic = topic}, k)}

Retrieved(fn, topic, k, search_failed, scanned, scan_failed, out) ==
    [name |-> "retrieve", fn |-> fn, topic |-> topic, k |-> k,
     search_failed |-> search_failed, scanned |-> scanned,
     scan_failed |-> scan_failed, out |-> out]

\* _get_relevant_documents_with_fallback(topic, query, k)
GetRelevantDocumentsWithFallback(topic, k, search_fails, scan_fails) ==
    /\ vectorstore = "none" => ~search_fails
    /\ IF vectorstore = "none"
       THEN \E out \in GetDocumentsCurrentMethod(topic, k, scan_fails) :
               op' = Retrieved("with_fallback", topic, k, FALSE, TRUE,
                               scan_fails, out)
       ELSE IF search_fails
       THEN \E out \in GetDocumentsCurrentMethod(topic, k, scan_fails) :
               op' = Retrieved("with_fallback", topic, k, TRUE, TRUE,
                               scan_fails, out)
       ELSE /\ ~scan_fails
            /\ \E rows \in TopK({d \in documents : d.topic = topic}, k) :
                  op' = Retrieved("with_fallback", topic, k, FALSE, FALSE,
                                  FALSE, Contents(rows))

\* _get_relevant_documents_without_filter(query, k): embed_query or the
\* match_documents call can fail
GetRelevantDocumentsWithoutFilter(k, search_fails) ==
    IF ~supabase_client \/ vectorstore # "ready"
    THEN /\ ~search_fails
         /\ op' = Retrieved("without_filter", None, k, FALSE, FALSE, FALSE, <<>>)
    ELSE IF search_fails
    THEN op' = Retrieved("without_filter", None, k, TRUE, FALSE, FALSE, <<>>)
    ELSE \E rows \in TopK(documents, k) :
            op' = Retrieved("without_filter", None, k, FALSE, FALSE, FALSE,
                            Contents(rows))

InitRetrieve ==
    /\ supabase_client \in BOOLEAN
    /\ google_api_key = TRUE
    /\ store_up = TRUE
    /\ Constructed({EmptyTable})
    /\ EmptyCache
    /\ CacheIdle
    /\ vectorstore \in {"none", "no_embeddings", "ready"}
    /\ documents \in SUBSET DocumentRows
    /\ NoCalls

Unchanged_retrieve ==
    /\ UNCHANGED <<questions_cache, topic_questions_index, now, next_id, puts,
                   result, response>>
    /\ Unchanged_request

RetrieveWithFallback(topic, k, search_fails, scan_fails) ==
    /\ GetRelevantDocumentsWithFallback(topic, k, search_fails, scan_fails)
    /\ Unchanged_retrieve

RetrieveWithoutFilter(k, search_fails) ==
    /\ GetRelevantDocumentsWithoutFilter(k, search_fails)
    /\ Unchanged_retrieve

NextRetrieve ==
    \/ \E t \in Topics, k \in 1..MaxK, f \in BOOLEAN, g \in BOOLEAN :
          RetrieveWithFallback(t, k, f, g)
    \/ \E k \in 1..MaxK, f \in BOOLEAN : RetrieveWithoutFilter(k, f)

SpecRetrieve == InitRetrieve /\ [][NextRetrieve]_vars

----------------------------------------------------------------------------
(* OutputParser: safe_parse_questions, format_questions.                    *)
(* An output is the sequence of its blocks, the blocks being separated by   *)
(* blank lines: a paragraph, a <think> block, or a JSON array.              *)

\* most blocks of an output
MaxSegments == 2
\* most items of a JSON array
MaxItems == 2
\* largest num asked for
MaxNum == 2

EndsWith(line, suffix) ==
    /\ Len(line) >= Len(suffix)
    /\ SubSeq(line, Len(line) - Len(suffix) + 1, Len(line)) = suffix

StartsWith(line, prefix) ==
    /\ Len(line) >= Len(prefix)
    /\ SubSeq(line, 1, Len(prefix)) = prefix

\* str.lower() of one character
Lower(c) ==
    LET UpperCase ==
            <<"A", "B", "C", "D", "E", "F", "G", "H", "I", "J", "K", "L", "M",
              "N", "O", "P", "Q", "R", "S", "T", "U", "V", "W", "X", "Y", "Z">>
        LowerCase ==
            <<"a", "b", "c", "d", "e", "f", "g", "h", "i", "j", "k", "l", "m",
              "n", "o", "p", "q", "r", "s", "t", "u", "v", "w", "x", "y", "z">>
        u == {i \in DOMAIN UpperCase : UpperCase[i] = c}
    IN  IF u = {} THEN c ELSE LowerCase[CHOOSE i \in u : TRUE]

\* re.search(word, line.lower())
LowerContains(line, word) ==
    \E i \in 1..(Len(line) - Len(word) + 1) :
        \A j \in 1..Len(word) :
            Lower(SubSeq(line, i + j - 1, i + j - 1)) = SubSeq(word, j, j)

\* (note|instruction|thinking|reasoning|let's|alright)
SkipWords == {"note", "instruction", "thinking", "reasoning", "let's", "alright"}

\* ^(Discuss|Explain|...|To what extent)
DirectiveVerbs ==
    {"Discuss", "Explain", "Analyze", "Evaluate", "Critically", "Examine",
     "Comment", "Elucidate", "Illustrate", "Describe", "Assess", "Justify",
     "Outline", "Compare", "Contrast", "What", "Why", "How", "To what extent"}

\* items of a JSON array: an object with a question, a string, a number
JsonItems ==
    {[type |-> "object", text |-> "Why is federalism cooperative?"],
     [type |-> "string", text |-> "Discuss judicial review."],
     [type |-> "number", text |-> "1"]}

Paragraph(text) == [kind |-> "para", text |-> text, items |-> <<>>]

JsonArray(items) == [kind |-> "json", text |-> "", items |-> items]

\* the blocks outputs are made of
Segments ==
    {Paragraph("Is federalism cooperative?"),
     Paragraph("Discuss judicial review."),
     Paragraph("Note: two questions follow."),
     Paragraph("Federalism divides power."),
     Paragraph("Explain the reasoning of the court."),
     Paragraph("Okay."),
     [kind |-> "think", text |-> "<think>plan</think>", items |-> <<>>]}
        \cup {JsonArray(items) :
                items \in UNION {[1..n -> JsonItems] : n \in 0..MaxItems}}

Outputs == UNION {[1..n -> Segments] : n \in 0..MaxSegments}

\* num of safe_parse_questions: None or a number
Nums == {None} \cup {ToString(n) : n \in 0..MaxNum}

NumValue(num) == CHOOSE n \in 0..MaxNum : ToString(n) = num

\* the text of a JSON item, and of an array
ItemText(q) ==
    IF q.type = "object" THEN "{\"question\": \"" \o q.text \o "\"}"
    ELSE IF q.type = "string" THEN "\"" \o q.text \o "\""
    ELSE q.text

RECURSIVE JoinItems(_)
JoinItems(items) ==
    IF items = <<>> THEN ""
    ELSE IF Len(items) = 1 THEN ItemText(items[1])
    ELSE ItemText(items[1]) \o ", " \o JoinItems(Tail(items))

\* the text of a block between two blank lines
SegText(seg) ==
    IF seg.kind = "json" THEN "[" \o JoinItems(seg.items) \o "]" ELSE seg.text

\* re.sub(r"<think>.*?</think>", "", output).strip(): the blocks left
StripThink(output) == SelectSeq(output, LAMBDA seg : seg.kind # "think")

\* seq[:num] if num else seq: None and 0 are both false
Trimmed(seq, num) ==
    IF num # None /\ NumValue(num) # 0
    THEN SubSeq(seq, 1, Min(NumValue(num), Len(seq)))
    ELSE seq

\* the loop over a parsed list: objects with a question, and strings
JsonResults(items, num) ==
    LET usable == SelectSeq(Trimmed(items, num),
                            LAMBDA q : q.type \in {"object", "string"})
    IN  [i \in DOMAIN usable |-> usable[i].text]

\* the test format_questions makes on a line
IsQuestionLine(line) ==
    /\ line # ""
    /\ \A w \in SkipWords : ~LowerContains(line, w)
    /\ \/ EndsWith(line, "?")
       \/ \E v \in DirectiveVerbs : StartsWith(line, v)

\* the blocks whose text passes the test
QuestionLines == {seg \in Segments : IsQuestionLine(SegText(seg))}

\* format_questions with n counting every paragraph, kept or not
FormatQuestions_CountsDropped(cleaned) ==
    LET kept == {i \in DOMAIN cleaned : cleaned[i] \in QuestionLines}
        nth(k) == CHOOSE i \in kept : Cardinality({j \in kept : j < i}) = k - 1
    IN  [k \in 1..Cardinality(kept) |-> Numbered(nth(k), SegText(cleaned[nth(k)]))]

\* format_questions(raw)
FormatQuestions(cleaned) ==
    LET kept == SelectSeq(cleaned, LAMBDA seg : seg \in QuestionLines)
    IN  [i \in DOMAIN kept |-> Numbered(i, SegText(kept[i]))]

\* [p.strip() for p in cleaned.split("\n\n") if len(p.strip()) > 10]
LongParagraphs(cleaned) ==
    LET kept == SelectSeq(cleaned, LAMBDA seg : Len(SegText(seg)) > 10)
    IN  [i \in DOMAIN kept |-> SegText(kept[i])]

\* what each stage finds in the cleaned text
TryJson(cleaned, num) ==
    IF Len(cleaned) = 1 /\ cleaned[1].kind = "json"
    THEN JsonResults(cleaned[1].items, num) ELSE <<>>

\* re.search(r"\[[\s\S]*\]"): from the first "[" to the last "]"
TryEmbeddedJson(cleaned, num) ==
    LET arrays == SelectSeq(cleaned, LAMBDA seg : seg.kind = "json")
    IN  IF Len(arrays) = 1 THEN JsonResults(arrays[1].items, num) ELSE <<>>

TryRegexQuestions(cleaned, num) == Trimmed(FormatQuestions(cleaned), num)

TryParagraphSplit(cleaned, num) ==
    LET fallback == Trimmed(LongParagraphs(cleaned), num)
    IN  [i \in DOMAIN fallback |-> Numbered(i, fallback[i])]

\* safe_parse_questions with the regex stage tried before the embedded JSON
SafeParseQuestions_RegexFirst(output, num) ==
    LET cleaned == StripThink(output)
    IN  IF TryJson(cleaned, num) # <<>>
        THEN [stage |-> "TRY_JSON", out |-> TryJson(cleaned, num)]
        ELSE IF FormatQuestions(cleaned) # <<>>
        THEN [stage |-> "TRY_REGEX_QUESTIONS",
              out |-> TryRegexQuestions(cleaned, num)]
        ELSE IF TryEmbeddedJson(cleaned, num) # <<>>
        THEN [stage |-> "TRY_EMBEDDED_JSON", out |-> TryEmbeddedJson(cleaned, num)]
        ELSE [stage |-> "TRY_PARAGRAPH_SPLIT",
              out |-> TryParagraphSplit(cleaned, num)]

\* safe_parse_questions(output, num): the stage that answered and its list
SafeParseQuestions(output, num) ==
    LET cleaned == StripThink(output)
    IN  IF TryJson(cleaned, num) # <<>>
        THEN [stage |-> "TRY_JSON", out |-> TryJson(cleaned, num)]
        ELSE IF TryEmbeddedJson(cleaned, num) # <<>>
        THEN [stage |-> "TRY_EMBEDDED_JSON", out |-> TryEmbeddedJson(cleaned, num)]
        ELSE IF FormatQuestions(cleaned) # <<>>
        THEN [stage |-> "TRY_REGEX_QUESTIONS",
              out |-> TryRegexQuestions(cleaned, num)]
        ELSE [stage |-> "TRY_PARAGRAPH_SPLIT",
              out |-> TryParagraphSplit(cleaned, num)]

InitParse ==
    /\ supabase_client = TRUE
    /\ google_api_key = TRUE
    /\ store_up = TRUE
    /\ Constructed({EmptyTable})
    /\ EmptyCache
    /\ NoDocuments
    /\ NoCalls
    /\ now = StartDay
    /\ puts = 0
    /\ \E output \in Outputs, num \in Nums :
          op = [name |-> "output", output |-> output, num |-> num]

\* safe_parse_questions applied to the output of a model
ParseOutput ==
    /\ op.name = "output"
    /\ LET parsed == SafeParseQuestions(op.output, op.num)
       IN  op' = [name |-> "parsed", output |-> op.output, num |-> op.num,
                  stage |-> parsed.stage, out |-> parsed.out]
    /\ Unchanged_retrieve

SpecParse == InitParse /\ [][ParseOutput]_vars

----------------------------------------------------------------------------
(* The latency history across restarts: _log_model_speed on a running        *)
(* process, and __init__ with _load_model_performance on the next            *)

\* most samples recorded for one model
MaxSamples == 3

\* the models that are invoked
RecordedModels == {"gemma2-9b", "llama3-70b"}

Unchanged_history ==
    UNCHANGED <<supabase_client, google_api_key, store_up, pc, api,
                requested_model, selection, models, idx, last_error, result,
                trace, base_runs, response, questions_cache,
                topic_questions_index, now, next_id, puts, vectorstore,
                documents, caller, count_row, calls, generated>>

\* _log_model_speed(model_name, elapsed, _)
RecordSample(model_name, elapsed) ==
    /\ Len(model_speeds[model_name]) < MaxSamples
    /\ LET speeds == LogModelSpeed(model_speeds, model_name, elapsed)
       IN  /\ model_speeds' = speeds
           /\ perf_table' = SaveModelPerformance(perf_table, speeds, model_name)
    /\ op' = [name |-> "sample", model |-> model_name]
    /\ Unchanged_history

\* the process is started again: __init__ sets model_speeds = {} and loads
Restart ==
    /\ model_speeds' = LoadModelPerformance(perf_table)
    /\ op' = [name |-> "restart"]
    /\ UNCHANGED perf_table
    /\ Unchanged_history

NextRestart ==
    \/ \E m \in RecordedModels, e \in 0..MaxElapsed : RecordSample(m, e)
    \/ Restart

SpecRestart == Init /\ [][NextRestart]_vars

----------------------------------------------------------------------------
(* generate_whole_paper from the return of _try_models on: the parsed        *)
(* questions are distributed over the selected topics, one call of           *)
(* _cache_questions for each topic                                           *)

\* safe_parse_questions(result.get("output", ""), 10)
paper_num == 10
\* num_topics = min(len(subject_topics), 6)
max_paper_topics == 6

\* the questions parsed from a paper, each standing for its text
PaperQuestions(n) == [j \in 1..n |-> "p" \o ToString(j)]

\* selected_topics: k topics of the subject, no topic twice
SelectedTopics(k) == [i \in 1..k |-> "topic" \o ToString(i)]

\* topic_questions of the last topic with the slice of the other topics
TopicSlice_NoRemainder(questions, num_topics, i) ==
    LET questions_per_topic == Len(questions) \div num_topics
        start_idx == (i - 1) * questions_per_topic
    IN  SubSeq(questions, start_idx + 1, start_idx + questions_per_topic)

\* topic_questions = questions[start_idx:end_idx] of the i-th selected topic
TopicSlice(questions, num_topics, i) ==
    LET questions_per_topic == Len(questions) \div num_topics
        start_idx == (i - 1) * questions_per_topic
        end_idx == IF i < num_topics THEN start_idx + questions_per_topic
                   ELSE Len(questions)
    IN  SubSeq(questions, start_idx + 1, end_idx)

\* a successful attempt gave n questions for k selected topics
StartPaperCaching(subject, n, k) ==
    /\ supabase_client
    /\ op.name = "none"
    /\ n >= min_paper_questions
    /\ result' = AttemptResult("success")
    /\ op' = [name |-> "paper", subject |-> subject, qs |-> PaperQuestions(n),
              topics |-> SelectedTopics(k), i |-> 1]
    /\ UNCHANGED <<questions_cache, topic_questions_index, next_id, now, puts,
                   response>>
    /\ Unchanged_request

\* one turn of the loop over selected_topics; the key is
\* f"paper_{subject}_{topic}_{int(time.time())}"
CachePaperSlice ==
    /\ op.name = "paper"
    /\ op.i <= Len(op.topics)
    /\ LET topic == op.topics[op.i]
           topic_questions == TopicSlice(op.qs, Len(op.topics), op.i)
       IN  IF topic_questions # <<>>
           THEN CacheQuestions(<<"paper", op.subject, topic, now>>,
                               topic_questions, op.subject, topic, "none")
           ELSE UNCHANGED <<questions_cache, topic_questions_index, next_id>>
    /\ op' = [op EXCEPT !.i = @ + 1]
    /\ UNCHANGED <<now, puts, result, response>>
    /\ Unchanged_request

NextPaper ==
    \/ \E n \in 1..paper_num, k \in 1..max_paper_topics :
          StartPaperCaching("GS1", n, k)
    \/ CachePaperSlice

SpecPaper == Init /\ [][NextPaper]_vars

----------------------------------------------------------------------------
(* Concurrent calls of _cache_questions for one (subject, topic): a step is   *)
(* one call of the store, and no call of the store fails                     *)

PutCall(at, excess, ids) == [pc |-> at, excess |-> excess, ids |-> ids]

Unchanged_put ==
    /\ UNCHANGED <<now, puts, result, response, caller, count_row, generated>>
    /\ UNCHANGED <<perf_table, supabase_client, google_api_key, store_up,
                   model_speeds, pc, api, requested_model, selection, models, idx,
                   last_error, trace, base_runs, vectorstore, documents>>

\* the upsert of questions_cache and the insert of topic_entries; op counts
\* the rows the topic has been given so far
PutInserts(p, qs, subject, topic) ==
    /\ calls[p].pc = "idle"
    /\ qs # <<>>
    /\ questions_cache' =
           Upsert(questions_cache,
                  CacheRow(GetCacheKey(subject, topic, Len(qs), FALSE, 0), qs,
                           subject, topic))
    /\ topic_questions_index' =
           topic_questions_index \cup TopicEntries(qs, subject, topic)
    /\ next_id' = next_id + Len(qs)
    /\ calls' = [calls EXCEPT ![p] = PutCall("count", 0, {})]
    /\ op' = [name |-> "inserts", subject |-> subject, topic |-> topic,
              inserted |->
                  Len(qs) + IF op.name = "inserts" THEN op.inserted
                            ELSE Cardinality(OfTopic(topic_questions_index,
                                                     subject, topic))]
    /\ Unchanged_put

\* _cleanup_topic_cache: count = len(response.data)
CleanupCounts(p) ==
    /\ calls[p].pc = "count"
    /\ LET count == Cardinality(OfTopic(topic_questions_index, op.subject,
                                        op.topic))
       IN  calls' = [calls EXCEPT ![p] =
                        IF count > max_entries
                        THEN PutCall("select", count - max_entries, {})
                        ELSE PutCall("done", 0, {})]
    /\ UNCHANGED <<questions_cache, topic_questions_index, next_id, op>>
    /\ Unchanged_put

\* old_entries: the excess_count oldest rows at the time of the query
CleanupSelects(p) ==
    /\ calls[p].pc = "select"
    /\ \E old_entries \in
           FirstByCreatedAt(OfTopic(topic_questions_index, op.subject, op.topic),
                            calls[p].excess) :
           calls' = [calls EXCEPT ![p] =
                        IF old_entries = {} THEN PutCall("done", 0, {})
                        ELSE PutCall("delete", calls[p].excess,
                                     {r.id : r \in old_entries})]
    /\ UNCHANGED <<questions_cache, topic_questions_index, next_id, op>>
    /\ Unchanged_put

\* one delete().eq('id', entry_id) of the loop over ids_to_delete
CleanupDeletes(p) ==
    /\ calls[p].pc = "delete"
    /\ \E entry_id \in calls[p].ids :
           /\ topic_questions_index' =
                  {r \in topic_questions_index : r.id # entry_id}
           /\ calls' = [calls EXCEPT ![p] =
                           IF calls[p].ids = {entry_id} THEN PutCall("done", 0, {})
                           ELSE PutCall("delete", calls[p].excess,
                                        calls[p].ids \ {entry_id})]
    /\ UNCHANGED <<questions_cache, next_id, op>>
    /\ Unchanged_put

NextPuts ==
    \/ \E p \in 1..MaxCalls, qs \in Batches : PutInserts(p, qs, "GS1", "Polity")
    \/ \E p \in 1..MaxCalls : CleanupCounts(p)
    \/ \E p \in 1..MaxCalls : CleanupSelects(p)
    \/ \E p \in 1..MaxCalls : CleanupDeletes(p)

SpecPuts == InitCache /\ [][NextPuts]_vars

----------------------------------------------------------------------------
(* The daily limits of the routes: api/routes/questions.py with              *)
(* SupabaseService.check_generation_limit, increment_generation_count and   *)
(* their guest twins. Requests of one caller run concurrently, one step per  *)
(* call of the store.                                                        *)

DAILY_LIMIT == 5
GUEST_DAILY_LIMIT == 2

DailyLimit(who) == IF who = "guest" THEN GUEST_DAILY_LIMIT ELSE DAILY_LIMIT

\* generation_count after "if last_date != today: generation_count = 0"
CountOn(row, today) ==
    IF row.last_generation_date # today THEN 0 ELSE row.generation_count

\* check_generation_limit, check_guest_generation_limit: an exception of the
\* store is answered with False
CheckGenerationLimit(row, daily_limit, fails) ==
    IF ~supabase_client \/ fails THEN FALSE
    ELSE IF ~row.exists THEN TRUE
    ELSE CountOn(row, now) < daily_limit

\* the row written by increment_generation_count from the row it read; the
\* store keeps one row for each user id and each address, so the insert of a
\* second one is refused
IncrementedRow(row, read, today) ==
    IF ~read.exists
    THEN (IF row.exists THEN row ELSE CountRow(1, today))
    ELSE CountRow(CountOn(read, today) + 1, today)

Unchanged_generator ==
    UNCHANGED <<perf_table, supabase_client, google_api_key, store_up,
                model_speeds, pc, api, requested_model, selection, models, idx,
                last_error, result, trace, base_runs, response, questions_cache,
                topic_questions_index, now, next_id, puts, vectorstore,
                documents, caller>>

\* the route returns the questions to the caller
Answered == generated' = [generated EXCEPT ![now] = @ + 1]

\* the rate limiting logic of a route: 429 when the check says no, otherwise
\* the generator is called
CheckLimitOfRoute(p, fails) ==
    /\ calls[p].pc = "idle"
    \* the count of answered generations stops one above the limit
    /\ generated[now] <= DailyLimit(caller)
    /\ LET allowed == CheckGenerationLimit(count_row, DailyLimit(caller), fails)
       IN  /\ calls' = [calls EXCEPT ![p].pc =
                           IF allowed THEN "generating" ELSE "idle"]
           /\ op' = [name |-> "check", allowed |-> allowed, fails |-> fails]
    /\ UNCHANGED <<count_row, generated>>
    /\ Unchanged_generator

\* the generator returned; increment_generation_count reads the row. A
\* failure is logged and the route answers
IncrementReadsRow(p, fails) ==
    /\ calls[p].pc = "generating"
    /\ IF fails
       THEN /\ calls' = [calls EXCEPT ![p] = IdleCall]
            /\ Answered
       ELSE /\ calls' = [calls EXCEPT ![p] =
                            [pc |-> "incrementing", today |-> now,
                             read |-> count_row]]
            /\ UNCHANGED generated
    /\ op' = [name |-> "increment_read", fails |-> fails]
    /\ UNCHANGED count_row
    /\ Unchanged_generator

\* increment_generation_count inserts or updates the row, and the route
\* answers
IncrementWritesRow(p, fails) ==
    /\ calls[p].pc = "incrementing"
    /\ count_row' = IF fails THEN count_row
                    ELSE IncrementedRow(count_row, calls[p].read, calls[p].today)
    /\ calls' = [calls EXCEPT ![p] = IdleCall]
    /\ Answered
    /\ op' = [name |-> "increment_write", fails |-> fails]
    /\ Unchanged_generator

InitLimit ==
    /\ supabase_client = TRUE
    /\ google_api_key = TRUE
    /\ store_up = TRUE
    /\ Constructed({EmptyTable})
    /\ EmptyCache
    /\ CacheIdle
    /\ NoDocuments
    /\ caller \in {"guest", "user"}
    /\ count_row = NoRecord
    /\ calls = [p \in 1..MaxCalls |-> IdleCall]
    /\ generated = [d \in Days |-> 0]

NextLimit ==
    \/ \E p \in 1..MaxCalls, f \in BOOLEAN : CheckLimitOfRoute(p, f)
    \/ \E p \in 1..MaxCalls, f \in BOOLEAN : IncrementReadsRow(p, f)
    \/ \E p \in 1..MaxCalls, f \in BOOLEAN : IncrementWritesRow(p, f)
    \/ Tick

SpecLimit == InitLimit /\ [][NextLimit]_vars

----------------------------------------------------------------------------
(* Vocabulary of the properties *)

GenerateApis ==
    {"generate_topic_questions", "generate_whole_paper",
     "generate_questions_from_keywords"}

IsPermutation(a, b) ==
    /\ Len(a) = Len(b)
    /\ \A x \in Range(a) \cup Range(b) :
           Cardinality({i \in DOMAIN a : a[i] = x})
               = Cardinality({i \in DOMAIN b : b[i] = x})

PriorityIndex(m) == CHOOSE i \in DOMAIN priority_order : priority_order[i] = m

HasMinAttempts(m) == Len(model_speeds[m]) >= min_attempts_for_avg

\* the static answer of select_model(requested): the priority order, behind the
\* requested model when that is registered
StaticSelection(requested) ==
    IF requested \in available_models
    THEN <<requested>> \o SelectSeq(priority_order, LAMBDA m : m # requested)
    ELSE Registered(priority_order)

\* seq, a list of models with history, is in non-decreasing order of mean
\* latency, and models of equal mean are in priority order
SortedByMean(seq) ==
    \A i, j \in DOMAIN seq :
        i < j =>
            /\ ~RatLess(Mean(model_speeds[seq[j]]), Mean(model_speeds[seq[i]]))
            /\ Mean(model_speeds[seq[i]]) = Mean(model_speeds[seq[j]])
                   => PriorityIndex(seq[i]) < PriorityIndex(seq[j])

Invocations(m) ==
    Cardinality({i \in DOMAIN trace :
                    trace[i].model = m /\ trace[i].outcome \in {"success", "failed"}})

Succeeded == \E i \in DOMAIN trace : trace[i].outcome = "success"

----------------------------------------------------------------------------
(* Properties *)

\* C1: every call of generate_topic_questions, generate_whole_paper and
\* generate_questions_from_keywords ends with a {questions, meta} response;
\* no exception escapes to the caller.
C1_GenerateAlwaysResponds ==
    (pc = "done" /\ api \in GenerateApis) => response.kind = "response"

\* C2: whatever the candidate list, and whether clients are missing, fail to
\* construct or raise on invoke, _try_models ends by returning a result
\* dictionary and never by raising.
C2_TryModelsNeverRaises ==
    pc = "returned" => result.status \in {"success", "all_failed"}

\* C3: the loop visits the candidates in list order; a successful invocation
\* is the last iteration of the loop, the result is then status "success"
\* with that candidate as model, and every earlier candidate was skipped as
\* unavailable or was invoked and failed.
C3_FirstSuccessReturns ==
    /\ \A i \in DOMAIN trace : trace[i].model = models[i]
    /\ \A i \in DOMAIN trace :
           trace[i].outcome = "success" =>
               /\ i = Len(trace)
               /\ pc # "try"
               /\ result.status = "success"
               /\ result.model = models[i]
               /\ \A j \in 1..(i - 1) : trace[j].outcome \in {"unavailable", "failed"}
    /\ result.status = "success" => Succeeded

\* a loop that skipped a candidate, had one fail, then had one succeed while
\* candidates were left
C3_Witness ==
    /\ pc = "returned"
    /\ result.status = "success"
    /\ Len(trace) < Len(models)
    /\ \E i, j \in DOMAIN trace :
           trace[i].outcome = "unavailable" /\ trace[j].outcome = "failed"

\* C4: when the loop has gone through the whole list (or the list is empty) and
\* no invocation succeeded, every candidate having raised on invoke or having
\* had no usable client, the call returns status "all_failed", and it returns
\* that status in no other case; the output is then the message carrying the
\* error of the last failed invocation.
C4_AllFailedIffNoSuccess ==
    pc = "returned" =>
        /\ result.status = "all_failed"
               <=> (Len(trace) = Len(models) /\ ~Succeeded)
        /\ result.status = "all_failed" =>
               /\ result.output.kind = "all_failed_message"
               /\ \A i \in DOMAIN trace :
                      trace[i].outcome = "failed" => result.output.last_error >= i
               /\ result.output.last_error # 0 =>
                      trace[result.output.last_error].outcome = "failed"

\* C5: when select_model returns a list, the requested model is its first
\* element whenever that model is registered, and every name in the list is a
\* registered model.
C5_RequestedFirstAllRegistered ==
    (pc = "selected" /\ selection.exc = "none") =>
        /\ requested_model \in available_models
               => selection.models[1] = requested_model
        /\ Range(selection.models) \subseteq available_models

\* a registered model outside the priority list is requested, its mean is the
\* highest, and the fallback was reordered
C5_Witness ==
    /\ pc = "selected"
    /\ requested_model = "llama3-8b"
    /\ AllHaveMinAttempts
    /\ selection.models # StaticSelection(requested_model)
    /\ \E m \in Range(priority_order) :
           /\ model_speeds[m] # <<>>
           /\ RatLess(Mean(model_speeds[m]), FallbackKey["llama3-8b"])

\* C6: when no model is requested and some model of the priority list has fewer
\* than 3 recorded samples (none at all included), select_model returns the
\* static priority order filtered to registered models.
C6_AutoStaticBelowThreshold ==
    (/\ pc = "selected"
     /\ requested_model = None
     /\ \E m \in Range(priority_order) : ~HasMinAttempts(m))
        => selection = Returned(Registered(priority_order))

\* C7: when no model is requested and every model of the priority list has at
\* least 3 recorded samples, select_model returns the registered priority-list
\* models in non-decreasing order of mean latency, ties in priority order.
C7_AutoSortedByMeanLatency ==
    (/\ pc = "selected"
     /\ requested_model = None
     /\ \A m \in Range(priority_order) : HasMinAttempts(m))
        => /\ selection.exc = "none"
           /\ IsPermutation(selection.models, Registered(priority_order))
           /\ SortedByMean(selection.models)

\* C8: when a registered model is requested, the models after the first are
\* the priority list without the requested model, and they leave the static
\* priority order only in states where every one of them has at least 3
\* recorded samples.
C8_FallbackReorderedOnlyWithHistory ==
    (pc = "selected" /\ requested_model \in available_models) =>
        /\ selection.exc = "none"
        /\ IsPermutation(Tail(selection.models),
                         Tail(StaticSelection(requested_model)))
        /\ Tail(selection.models) # Tail(StaticSelection(requested_model))
               => \A m \in Range(Tail(selection.models)) : HasMinAttempts(m)

\* C9: for each request, in every performance history, select_model returns,
\* and what it returns is a permutation of the same candidates: the recorded
\* latencies decide the order only.
C9_SameCandidatesInEveryHistory ==
    pc = "selected" =>
        /\ selection.exc = "none"
        /\ IsPermutation(selection.models, StaticSelection(requested_model))

\* C10: throughout the attempt loop the number of recorded samples of each
\* model is its number at loop entry plus the number of invocations of that
\* model so far, successful or failed; a candidate skipped for want of a
\* client adds nothing.
C10_OneSamplePerInvocation ==
    \A m \in available_models :
        Len(model_speeds[m]) = base_runs[m] + Invocations(m)

\* a loop that skipped a candidate, recorded a failure and recorded a success
C10_Witness ==
    /\ pc = "returned"
    /\ \E i, j, k \in DOMAIN trace :
           /\ trace[i].outcome = "unavailable"
           /\ trace[j].outcome = "failed"
           /\ trace[k].outcome = "success"
           /\ base_runs[trace[j].model] > 0

----------------------------------------------------------------------------
(* GenerationCache properties *)

\* a step is a put that completed: a successful generation with questions
\* whose store calls all succeeded
PutCompleted ==
    /\ puts' = puts + 1
    /\ op'.name = "put"
    /\ op'.status = "success"
    /\ op'.qs # <<>>
    /\ op'.fail = "none"
    /\ supabase_client

\* the rows the put of the step inserted
Inserted == TopicEntries(op'.qs, op'.subject, op'.topic)

\* C11: after every put that completes, the topic index holds at most
\* max_entries (50) rows of the put's (subject, topic); the rows removed are
\* no newer than any row kept, and no more rows are removed than the excess
C11_PutKeepsNewestFifty ==
    [][PutCompleted =>
        LET before == OfTopic(topic_questions_index \cup Inserted,
                              op'.subject, op'.topic)
            after == OfTopic(topic_questions_index', op'.subject, op'.topic)
        IN  /\ after \subseteq before
            /\ Cardinality(after) = Min(Cardinality(before), max_entries)
            /\ \A r \in before \ after, k \in after :
                   r.created_at <= k.created_at]_vars

\* a completed put of two questions has pushed stored rows out of a full index
C11_Witness ==
    /\ op.name = "put" /\ op.status = "success" /\ op.fail = "none"
    /\ Len(op.qs) = 2
    /\ Cardinality(OfTopic(topic_questions_index, op.subject, op.topic))
           = max_entries
    /\ \E r \in StoredIndex(max_entries - 1, op.subject, op.topic) :
           r \notin topic_questions_index

\* a step is a clear_cache call
ClearStep == puts' = puts + 1 /\ op'.name = "clear"

\* a step is a put whose insert leaves more than max_entries rows of r's topic
TrimmingPut(r) ==
    /\ puts' = puts + 1
    /\ op'.name = "put"
    /\ r.subject = op'.subject /\ r.topic = op'.topic
    /\ Cardinality(OfTopic(topic_questions_index \cup Inserted,
                           op'.subject, op'.topic)) > max_entries

\* no row drawn by the last read had expired at the time of the read
DrawnLive(o) ==
    o.name = "examples" => \A i \in DOMAIN o.drawn : o.drawn[i].expires_at > o.at

Expired(r) == r.expires_at <= now

Matches(subject, topic, r) ==
    /\ subject # None => r.subject = subject
    /\ topic # None => r.topic = topic

\* C13: clear(subject?, topic?) deletes from both tables exactly the rows
\* that match the filters given, for each of the four filter combinations
\* (none, subject only, topic only, both)
C13_ClearDeletesMatchingRows ==
    [][ClearStep /\ op'.fail = "none" =>
        /\ questions_cache' =
               {r \in questions_cache : ~Matches(op'.subject, op'.topic, r)}
        /\ topic_questions_index' =
               {r \in topic_questions_index :
                   ~Matches(op'.subject, op'.topic, r)}]_vars

BeyondCap(r) ==
    LET before == OfTopic(topic_questions_index \cup Inserted, r.subject, r.topic)
    IN  Cardinality({k \in before \ {r} : k.created_at >= r.created_at})
            >= max_entries

C16_KeyDeterministicAndDistinct ==
    op.name = "keys" => (op.a = op.b <=> op.key_a = op.key_b)

----------------------------------------------------------------------------
(* DocumentRetriever properties *)

\* C17: a retrieval never raises; when its similarity search fails it makes
\* the direct scan filtered by equality on the topic and limited to k rows,
\* and answers with what the scan found, or with the empty list when the
\* scan fails or finds nothing
C17_RetrievalFallsBackToScan ==
    op.name = "retrieve" =>
        /\ op.out \in Seq(DocContents)
        /\ Len(op.out) <= op.k
        /\ op.search_failed => op.scanned
        /\ op.scanned =>
               /\ op.scan_failed => op.out = <<>>
               /\ \A i \in DOMAIN op.out :
                      [content |-> op.out[i], topic |-> op.topic] \in documents

----------------------------------------------------------------------------
(* OutputParser properties *)

\* C18: for every output text (empty text, text with no paragraph longer
\* than 10 characters and JSON arrays with no usable item included)
\* safe_parse_questions returns, and the list it returns is not empty
C18_ParserReturnsNonEmptyList ==
    op.name = "parsed" => op.out \in Seq(STRING) /\ op.out # <<>>

\* everything the answering stage found in the output, in order
Found(stage, output) ==
    LET cleaned == StripThink(output)
    IN  IF stage = "TRY_JSON" THEN TryJson(cleaned, None)
        ELSE IF stage = "TRY_EMBEDDED_JSON" THEN TryEmbeddedJson(cleaned, None)
        ELSE IF stage = "TRY_REGEX_QUESTIONS" THEN TryRegexQuestions(cleaned, None)
        ELSE TryParagraphSplit(cleaned, None)

\* C19: whenever num is given (any num >= 0) the list returned has at most
\* num items, whichever stage produced it, and they are the first items the
\* stage found, in order
C19_AtMostNumFirstItems ==
    op.name = "parsed" /\ op.num # None =>
        /\ Len(op.out) <= NumValue(op.num)
        /\ op.out = SubSeq(Found(op.stage, op.output), 1, Len(op.out))

\* C20: a failure of any store call of a put (upsert, insert, count, select,
\* delete) is swallowed: the request answers with the parsed questions and
\* the status of the attempt, as it does when the cache write succeeds
C20_PutFailureSwallowed ==
    op.name = "put" =>
        response = [kind |-> "response", status |-> result.status,
                    model |-> result.model, runs |-> result.runs,
                    questions |-> Len(op.qs)]

\* a delete of the trim failed and the request answered with its questions
C20_Witness ==
    /\ op.name = "put"
    /\ op.fail = "delete"
    /\ response.status = "success"
    /\ response.questions = Len(op.qs)
    /\ Cardinality(OfTopic(topic_questions_index, op.subject, op.topic))
           > max_entries

----------------------------------------------------------------------------
(* Properties of repeated puts *)

\* a step is a completed put that repeats the completed put before it
SecondPut ==
    /\ PutCompleted
    /\ op.name = "put" /\ op.status = "success" /\ op.fail = "none"
    /\ op.qs = op'.qs /\ op.subject = op'.subject /\ op.topic = op'.topic

\* C25 as stated: a put that repeats the put before it leaves
\* questions_cache and the topic index as the first put left them
C25_PutIdempotent ==
    [][SecondPut =>
        /\ questions_cache' = questions_cache
        /\ topic_questions_index' = topic_questions_index]_vars

\* C25 amended: a put that repeats the put before it leaves questions_cache
\* with the same keys, each with the same questions; to the topic index it
\* appends one new row for each question, of which the topic keeps the
\* max_entries newest
C25_SecondPutAppendsToIndex ==
    [][SecondPut =>
        LET before == OfTopic(topic_questions_index, op'.subject, op'.topic)
            after == OfTopic(topic_questions_index', op'.subject, op'.topic)
        IN  /\ {<<r.cache_key, r.questions>> : r \in questions_cache'}
                   = {<<r.cache_key, r.questions>> : r \in questions_cache}
            /\ Cardinality(questions_cache') = Cardinality(questions_cache)
            /\ Inserted \cap topic_questions_index = {}
            /\ after \subseteq before \cup Inserted
            /\ Cardinality(after)
                   = Min(max_entries, Cardinality(before) + Len(op'.qs))]_vars

\* two equal puts of two questions have completed one after the other, and
\* the topic holds the rows of both
C25_Witness ==
    /\ puts = 2
    /\ op.name = "put" /\ op.status = "success" /\ op.fail = "none"
    /\ Len(op.qs) = 2
    /\ \A i \in 1..4 :
           \E r \in OfTopic(topic_questions_index, op.subject, op.topic) :
               r.id = op.first_id + 2 - i
    /\ Cardinality({r \in questions_cache : r.subject = op.subject
                                              /\ r.topic = op.topic}) = 1

----------------------------------------------------------------------------
(* Properties of the examples drawn from the topic index *)

\* the rows a read with the arguments of o can have been answered with
RowsRead(o) ==
    LastByCreatedAt({r \in OfTopic(topic_questions_index, o.subject, o.topic) :
                        r.expires_at > o.at},
                    o.max_examples * 2)

\* the rows drawn are of the topic read, no row is drawn twice, and the
\* examples are their texts numbered from 1
DrawnFromTopic(o) ==
    /\ \A i \in DOMAIN o.drawn :
           o.drawn[i].subject = o.subject /\ o.drawn[i].topic = o.topic
    /\ \A i, j \in DOMAIN o.drawn : i # j => o.drawn[i] # o.drawn[j]
    /\ o.examples =
           [i \in DOMAIN o.drawn |-> Numbered(i, o.drawn[i].question_text)]

\* C27 as stated: a read that did not fail returns
\* min(max_examples, rows read) pairwise distinct rows of its
\* (subject, topic), taken from the at most 2 x max_examples unexpired rows
\* it read
C27_SamplesMinOfRowsRead ==
    (op.name = "examples" /\ ~op.fail) =>
        /\ DrawnFromTopic(op)
        /\ \E got \in RowsRead(op) :
               /\ Cardinality(got) <= 2 * op.max_examples
               /\ Range(op.drawn) \subseteq got
               /\ Len(op.drawn) = Min(op.max_examples, Cardinality(got))

\* C27 amended: a read that did not fail returns min(max_examples, rows
\* read that have a question text) pairwise distinct rows of its
\* (subject, topic), taken from the at most 2 x max_examples unexpired rows
\* it read
C27_SamplesMinOfRowsWithText ==
    (op.name = "examples" /\ ~op.fail) =>
        /\ DrawnFromTopic(op)
        /\ \E got \in RowsRead(op) :
               /\ Cardinality(got) <= 2 * op.max_examples
               /\ Range(op.drawn) \subseteq WithText(got)
               /\ Len(op.drawn)
                      = Min(op.max_examples, Cardinality(WithText(got)))

\* a read drew two of the four rows it read, and the topic has more
C27_Witness ==
    /\ op.name = "examples" /\ ~op.fail
    /\ op.max_examples = 2
    /\ Len(op.drawn) = 2
    /\ Cardinality({r \in OfTopic(topic_questions_index, op.subject, op.topic) :
                        r.expires_at > op.at}) > 4
    /\ \E r \in topic_questions_index : r.subject = op.subject /\ r.topic # op.topic

----------------------------------------------------------------------------
(* Properties of the stages of the parser *)

StageOrder ==
    <<"TRY_JSON", "TRY_EMBEDDED_JSON", "TRY_REGEX_QUESTIONS", "TRY_PARAGRAPH_SPLIT">>

\* what a stage, taken alone, makes of the output for num
StageOutput(stage, output, num) ==
    LET cleaned == StripThink(output)
    IN  IF stage = "TRY_JSON" THEN TryJson(cleaned, num)
        ELSE IF stage = "TRY_EMBEDDED_JSON" THEN TryEmbeddedJson(cleaned, num)
        ELSE IF stage = "TRY_REGEX_QUESTIONS" THEN TryRegexQuestions(cleaned, num)
        ELSE TryParagraphSplit(cleaned, num)

\* C28: the list returned is the list of one stage, every stage before it
\* in the order direct JSON, embedded JSON, regex questions, paragraph split
\* found nothing in the text without its think blocks, and a stage other
\* than the last answers only with at least one item
C28_FirstYieldingStageAnswers ==
    op.name = "parsed" =>
        \E k \in DOMAIN StageOrder :
            /\ op.stage = StageOrder[k]
            /\ op.out = StageOutput(StageOrder[k], op.output, op.num)
            /\ k < Len(StageOrder) => op.out # <<>>
            /\ \A j \in 1..(k - 1) :
                   StageOutput(StageOrder[j], op.output, op.num) = <<>>

\* the embedded JSON stage answered for an output behind a think block in
\* which the regex stage would have found a question too
C28_Witness ==
    /\ op.name = "parsed"
    /\ op.stage = "TRY_EMBEDDED_JSON"
    /\ StageOutput("TRY_REGEX_QUESTIONS", op.output, op.num) # <<>>
    /\ \E i \in DOMAIN op.output : op.output[i].kind = "json"
    /\ Len(StripThink(op.output)) = 2

----------------------------------------------------------------------------
(* Properties of the regex stage *)

\* the blocks that end in "?" or begin with a directive verb
DirectiveLines ==
    {seg \in Segments :
        \/ EndsWith(SegText(seg), "?")
        \/ \E v \in DirectiveVerbs : StartsWith(SegText(seg), v)}

\* those of them that contain none of the skipped words
UnskippedLines ==
    {seg \in DirectiveLines : \A w \in SkipWords : ~LowerContains(SegText(seg), w)}

\* the regex stage answered for o with the blocks of lines, and no others,
\* numbered 1, 2, 3, ... in the order of the text and cut to num
RegexStageKeeps(o, lines) ==
    LET kept == SelectSeq(StripThink(o.output), LAMBDA seg : seg \in lines)
    IN  /\ o.stage = "TRY_REGEX_QUESTIONS" =>
               /\ Len(o.out) = Len(Trimmed(kept, o.num))
               /\ \A i \in DOMAIN o.out :
                      o.out[i] = ToString(i) \o ". " \o SegText(kept[i])
        /\ o.stage = "TRY_PARAGRAPH_SPLIT" => kept = <<>>

\* C29 as stated: the regex stage keeps every paragraph that ends in "?" or
\* begins with a directive verb, drops every other, and numbers the kept
\* ones 1, 2, 3, ... in their order
C29_KeepsEveryDirectiveLine ==
    op.name = "parsed" => RegexStageKeeps(op, DirectiveLines)

\* C29 amended: the regex stage keeps every paragraph that ends in "?" or
\* begins with a directive verb and contains none of the words note,
\* instruction, thinking, reasoning, let's, alright, drops every other, and
\* numbers the kept ones 1, 2, 3, ... in their order
C29_KeepsUnskippedDirectiveLines ==
    op.name = "parsed" => RegexStageKeeps(op, UnskippedLines)

\* the regex stage kept the second of two paragraphs and dropped the first,
\* a directive with a skipped word in it
C29_Witness ==
    /\ op.name = "parsed"
    /\ op.stage = "TRY_REGEX_QUESTIONS"
    /\ Len(op.output) = 2
    /\ op.output[1] \in DirectiveLines \ UnskippedLines
    /\ Len(op.out) = 1

----------------------------------------------------------------------------
(* Properties of the daily limits *)

\* C21: on any one UTC day at most GUEST_DAILY_LIMIT (2) generations are
\* answered for one guest address and at most DAILY_LIMIT (5) for one user,
\* however the concurrent requests interleave and also when the increment
\* of the counter fails
C21_DailyLimitHolds ==
    \A d \in Days : generated[d] <= DailyLimit(caller)

----------------------------------------------------------------------------
(* Properties of the selection of example documents *)

\* C22: the documents chosen as examples for n = k are exactly
\* min(n, |documents|) of the stored documents, and when n is at least the
\* number of topic strata and |documents| >= n, every topic that has a
\* document contributes at least one of the chosen (here for the
\* selections whose search succeeded)
C22_SampleCoversStrata ==
    (/\ op.name = "retrieve"
     /\ supabase_client /\ vectorstore = "ready"
     /\ ~op.search_failed /\ ~op.scanned) =>
        LET strata == {t \in Topics : \E d \in documents : d.topic = t}
        IN  /\ Len(op.out) = Min(op.k, Cardinality(documents))
            /\ \A i \in DOMAIN op.out : \E d \in documents : d.content = op.out[i]
            /\ (op.k >= Cardinality(strata) /\ Cardinality(documents) >= op.k) =>
                   \A t \in strata :
                       \E i \in DOMAIN op.out :
                           [content |-> op.out[i], topic |-> t] \in documents

----------------------------------------------------------------------------
(* Properties of the order of the attempt loop *)

\* one iteration of the loop of _try_models, or its end
LoopStep ==
    \/ SkipUnavailable
    \/ ClientConstructorRaises
    \/ \E e \in 0..MaxElapsed : InvokeSucceeds(e)
    \/ \E e \in 0..MaxElapsed : InvokeFails(e)
    \/ AllModelsFailed

\* C23: _try_models takes the candidates in the order of its list, one per
\* step and each position of the list at most once: every iteration is at
\* the position after the one before, there are never more iterations than
\* candidates, and as long as the loop has not ended it can take a step,
\* which is its last at the latest when the list is exhausted
C23_OnePassInListOrder ==
    /\ [](pc = "try" => idx = Len(trace) + 1 /\ ENABLED LoopStep)
    /\ [][/\ Len(trace') <= Len(models')
          /\ \A i \in DOMAIN trace' : trace'[i].model = models'[i]
          /\ trace' # trace =>
                 /\ pc = "try"
                 /\ trace' = Append(trace, Entry(models[idx], trace'[idx].outcome))
          /\ (pc = "try" /\ pc' = "try") => idx' = idx + 1 /\ models' = models
          /\ (pc = "try" /\ idx > Len(models)) => pc' = "returned"]_vars

\* a loop went through a list of several candidates, invoking some and
\* skipping some, and returned after the last
C23_Witness ==
    /\ pc = "returned"
    /\ Len(models) >= 2
    /\ Len(trace) = Len(models)
    /\ \E i, j \in DOMAIN trace :
           trace[i].outcome = "failed" /\ trace[j].outcome = "unavailable"

----------------------------------------------------------------------------
(* Properties of concurrent puts *)

\* C24: while puts to one (subject, topic) run concurrently the cleanups
\* never take the topic below min(max_entries, rows inserted), and once
\* every put has finished the topic holds exactly that many rows
C24_ConcurrentPutsKeepFifty ==
    op.name = "inserts" =>
        LET held == Cardinality(OfTopic(topic_questions_index, op.subject,
                                        op.topic))
        IN  /\ held >= Min(max_entries, op.inserted)
            /\ (\A p \in DOMAIN calls : calls[p].pc \in {"idle", "done"})
                   => held = Min(max_entries, op.inserted)

----------------------------------------------------------------------------
(* Properties of the history across restarts *)

\* C26: after a restart the history of every model with a persisted
\* aggregate has as many samples as the persisted num_runs and the
\* persisted avg_speed as its mean, a mean of zero included
C26_LoadRebuildsAggregate ==
    (op.name = "restart" /\ supabase_client) =>
        \A m \in available_models :
            perf_table[m].num_runs > 0 =>
                /\ Len(model_speeds[m]) = perf_table[m].num_runs
                /\ Mean(model_speeds[m]) = perf_table[m].avg_speed

----------------------------------------------------------------------------
(* Properties of the caching of a paper *)

\* the rows of the topic index that carry the text of a question
RowsOf(question) == {r \in topic_questions_index : r.question_text = question}

\* C30: while a paper is cached no question is written twice, and once the
\* loop over the selected topics has ended every parsed question is in the
\* topic index exactly once, under the subject and one of the selected
\* topics, the topics taking consecutive slices of the list in order
C30_PaperSlicesPartition ==
    op.name = "paper" =>
        /\ \A j \in DOMAIN op.qs : Cardinality(RowsOf(op.qs[j])) <= 1
        /\ op.i > Len(op.topics) =>
               /\ \A j \in DOMAIN op.qs :
                      \E r \in RowsOf(op.qs[j]) :
                          r.subject = op.subject /\ r.topic \in Range(op.topics)
               /\ \A a, b \in topic_questions_index :
                      a.id < b.id =>
                          \E i, j \in DOMAIN op.topics :
                              i <= j /\ a.topic = op.topics[i] /\ b.topic = op.topics[j]
               /\ Cardinality(topic_questions_index) = Len(op.qs)

\* a paper of seven questions was cached for three topics, the last topic
\* taking the remainder
C30_Witness ==
    /\ op.name = "paper"
    /\ op.i > Len(op.topics)
    /\ Len(op.qs) = 7 /\ Len(op.topics) = 3
    /\ Cardinality(OfTopic(topic_questions_index, op.subject, op.topics[3])) = 3
    /\ Cardinality(OfTopic(topic_questions_index, op.subject, op.topics[1])) = 2

====
